---------------------------- MODULE Spec2Model ----------------------------
(***************************************************************************)
(* InformationCollationPipeline                                            *)
(* (src/src/signal_generation/information_collation_task.py) as a state   *)
(* machine: the signal table built at construction and the three stages   *)
(* that run() calls in order, each loading its feed document first.       *)
(*                                                                         *)
(* Numbers.  Floats are modelled exactly, as rationals over integers:     *)
(*   - a sentiment score is in thousandths (0.35 is 350); an aggregate    *)
(*     score is the record [num, den], den > 0, in lowest terms;          *)
(*   - a relevance score is in tenths (1.0 is 10);                        *)
(*   - a rolling stddev sample is in thousandths (0.02 is 20);            *)
(*   - an analyst consensus score is [num, den] in rating units.          *)
(* Floating-point rounding of the sums and quotients is not modelled.     *)
(* An absent cell (pandas NaN or None) is the empty tuple, a present      *)
(* value v is <<v>>.                                                      *)
(***************************************************************************)
EXTENDS Integers, Sequences, FiniteSets, TLC

VARIABLES
    tickers,      \* self.tickers: the ticker universe given to __init__
    signals_df,   \* self.signals_df: row key -> row (a record of cells)
    columns,      \* the column labels of self.signals_df
    feed_json,    \* the running stage's local feed_json: its document
    absent_in,    \* history: ticker -> the feed kinds it was absent from
    pc,           \* position of run(): the stage to call, or the one returning
    exception,    \* the exception __init__ or run() ended with, if it raised
    loader,       \* self.loader: the FeedLoader built by __init__
    io,           \* history: the requests issued and the files opened
    call,         \* a call of one of the static methods: its arguments
    ret           \* ... and what it returned

vars ==
    <<tickers, signals_df, columns, feed_json, absent_in, pc, exception,
      loader, io, call, ret>>

---------------------------------------------------------------------------
(* Bounds of the model and the alphabets the inputs are drawn from.        *)

MaxArticles == 2      \* articles in a news feed
MaxObs == 2           \* ticker_sentiment entries in a news feed, in total
MaxRatings == 1       \* analysts in one ticker's rating histogram
MaxSamples == 1       \* RUNNING_STDDEV samples of one ticker
MaxDen == 4           \* denominators of the scores given to a classifier
MaxScore == 1000      \* largest sentiment numerator given to the classifier
MaxStddev == 100      \* largest stddev sample given to the volatility bands
MaxWindow == 21       \* window sizes given to _scrape_window_analytics_feed

RequestedStrings == {"X", "Y"}       \* tickers a universe and the documents
                                     \* of a run are drawn from
FeedStrings == {"X", "x", "Y"}       \* ticker strings of the news feeds the
                                     \* static methods are called on
SentimentVals == {-500, 0, 500}      \* ticker_sentiment_score, thousandths
RelevanceVals == {0, 10}             \* relevance_score, tenths
StddevVals == {19, 20, 50}           \* stddev samples, thousandths

None == <<>>
Some(v) == <<v>>
IsNone(c) == c = <<>>
Val(c) == c[1]

---------------------------------------------------------------------------
(* Arithmetic helpers.                                                     *)

Abs(n) == IF n < 0 THEN -n ELSE n

RECURSIVE GCD(_, _)
GCD(a, b) == IF b = 0 THEN a ELSE GCD(b, a % b)

\* num/den in lowest terms with a positive denominator (den # 0)
Ratio(num, den) ==
    LET g == GCD(Abs(num), Abs(den))
        sgn == IF den < 0 THEN -1 ELSE 1
    IN  [num |-> sgn * (num \div g), den |-> sgn * (den \div g)]

RECURSIVE SumSeq(_)
SumSeq(s) == IF s = <<>> THEN 0 ELSE Head(s) + SumSeq(Tail(s))

RECURSIVE Concat(_)
Concat(ss) == IF ss = <<>> THEN <<>> ELSE Head(ss) \o Concat(Tail(ss))

RECURSIVE Chunks(_, _)
\* cut the sequence flat into consecutive pieces of the lengths in shape
Chunks(shape, flat) ==
    IF shape = <<>> THEN <<>>
    ELSE <<SubSeq(flat, 1, Head(shape))>>
         \o Chunks(Tail(shape), SubSeq(flat, Head(shape) + 1, Len(flat)))

---------------------------------------------------------------------------
(* The documents the feed source returns.                                  *)

\* the elements of an article's "ticker_sentiment" list
Entries(strings) ==
    [ticker : strings,
     ticker_sentiment_score : SentimentVals,
     relevance_score : RelevanceVals]

Shapes ==
    {sh \in UNION {[1..n -> 0..MaxObs] : n \in 0..MaxArticles} :
        SumSeq(sh) <= MaxObs}

\* feed_json["feed"]: a sequence of articles, each its ticker_sentiment
\* list.  The feeds are NewsFeed(sh, flat) for sh in Shapes (the lengths of
\* the articles) and flat in FlatEntries(sh, strings) (their entries, in order)
FlatEntries(sh, strings) == [1..SumSeq(sh) -> Entries(strings)]

NewsFeed(sh, flat) == Chunks(sh, flat)

\* one ticker's record of the fundamentals document; an empty dict is the
\* record with empty = TRUE.  AnalystTargetPrice is the string of the
\* document; the rating counts stand for well-formed numeric strings.
Histograms ==
    {h \in [1..5 -> 0..MaxRatings] : SumSeq(h) <= MaxRatings}

FundamentalsRecord(h) ==
    [empty |-> FALSE, Industry |-> "SOFTWARE", TrailingPE |-> "14.00",
     ForwardPE |-> "13.00", AnalystTargetPrice |-> "140.00",
     AnalystRatingStrongBuy |-> h[1], AnalystRatingBuy |-> h[2],
     AnalystRatingHold |-> h[3], AnalystRatingSell |-> h[4],
     AnalystRatingStrongSell |-> h[5]]

EmptyDict == [FundamentalsRecord([i \in 1..5 |-> 0]) EXCEPT !.empty = TRUE]

\* a record whose AnalystTargetPrice is not a number ("-", as for a ticker
\* without analyst coverage)
NonNumericRecord ==
    [FundamentalsRecord([i \in 1..5 |-> 0]) EXCEPT !.AnalystTargetPrice = "-"]

FundamentalsRecords ==
    {FundamentalsRecord(h) : h \in Histograms} \cup {EmptyDict, NonNumericRecord}

\* ticker -> record, for the tickers the document has a key for
FundamentalsFeeds ==
    UNION {[K -> FundamentalsRecords] : K \in SUBSET RequestedStrings}

\* a ticker's RUNNING_STDDEV dict {date: value}, as the sequence of its values
SampleSeqs(vals) == UNION {[1..n -> vals] : n \in 0..MaxSamples}

\* ...["RUNNING_STDDEV"]: ticker -> samples, for the tickers it has a key for
AnalyticsFeeds ==
    UNION {[K -> SampleSeqs(StddevVals)] : K \in SUBSET RequestedStrings}

---------------------------------------------------------------------------
(* The sentiment stage's helpers.                                          *)

\* the entries of one article that carry ticker string t (exact equality)
EntriesFor(article, t) == SelectSeq(article, LAMBDA e : e.ticker = t)

FeedTickers(feed) ==
    UNION {{feed[i][j].ticker : j \in 1..Len(feed[i])} : i \in 1..Len(feed)}

\* ticker -> the article positions recorded for it, one per entry carrying
\* it (positions are 1-based here, 0-based in the code)
_scrape_sentiment_feed(feed) ==
    [t \in FeedTickers(feed) |->
        Concat([i \in 1..Len(feed) |->
                   [j \in 1..Len(EntriesFor(feed[i], t)) |-> i]])]

\* occurrences is the row's _news_occurences cell, name the row's key
_collect_sentiment_scores(feed, occurrences, name) ==
    LET occ == IF IsNone(occurrences) THEN <<>> ELSE Val(occurrences)
        hits == Concat([k \in 1..Len(occ) |-> EntriesFor(feed[occ[k]], name)])
    IN  [_all_sentiment_scores |->
             [k \in 1..Len(hits) |-> hits[k].ticker_sentiment_score],
         _all_relevance_scores |->
             [k \in 1..Len(hits) |-> hits[k].relevance_score]]

\* _aggregate_scores with .fillna(0) in place of .dropna(): a row without
\* a sum gets the score 0
_aggregate_scores_fillna(collected) ==
    LET sent(t) == collected[t]._all_sentiment_scores
        rel(t) == collected[t]._all_relevance_scores
        _weighted_sentiment(t) ==
            SumSeq([k \in 1..Len(sent(t)) |-> sent(t)[k] * rel(t)[k]])
        relevance(t) == SumSeq(rel(t))
    IN  [t \in DOMAIN collected |->
            IF _weighted_sentiment(t) # 0 /\ relevance(t) # 0
            THEN Ratio(_weighted_sentiment(t), relevance(t))
            ELSE Ratio(0, 1)]

\* collected: row key -> its two helper cells.  Explode, multiply, sum per
\* ticker (an empty list sums to 0), replace 0 by None in both sums, drop
\* the rows with a None, divide.  The result is keyed by the rows kept.
_aggregate_scores(collected) ==
    LET sent(t) == collected[t]._all_sentiment_scores
        rel(t) == collected[t]._all_relevance_scores
        _weighted_sentiment(t) ==
            SumSeq([k \in 1..Len(sent(t)) |-> sent(t)[k] * rel(t)[k]])
        relevance(t) == SumSeq(rel(t))
        kept == {t \in DOMAIN collected :
                    _weighted_sentiment(t) # 0 /\ relevance(t) # 0}
    IN  [t \in kept |-> Ratio(_weighted_sentiment(t), relevance(t))]

\* process_sentiment up to the aggregation: the occurrences column aligned
\* on the row keys, the helper lists of every row, the scores of the rows kept
CollectedFor(feed, name) ==
    LET _news_occurences == _scrape_sentiment_feed(feed)
    IN  _collect_sentiment_scores(
            feed,
            IF name \in DOMAIN _news_occurences
            THEN Some(_news_occurences[name]) ELSE None,
            name)

SentimentScores(feed, keys) ==
    _aggregate_scores([t \in keys |-> CollectedFor(feed, t)])

\* comparisons of the rational sc (thousandths) with the literal k/1000
Gt(sc, k) == sc.num > k * sc.den
Le(sc, k) == sc.num <= k * sc.den
Lt(sc, k) == sc.num < k * sc.den
Ge(sc, k) == sc.num >= k * sc.den

\* _convert_sentiment_score with the first band closed at 0.35
_convert_sentiment_score_ge(sentiment_score) ==
    IF Ge(sentiment_score, 350)
    THEN [direction |-> "buy", conviction |-> "strong"]
    ELSE IF Gt(sentiment_score, 150) /\ Le(sentiment_score, 350)
    THEN [direction |-> "buy", conviction |-> "small"]
    ELSE IF Ge(sentiment_score, -150) /\ Le(sentiment_score, 150)
    THEN [direction |-> "hold", conviction |-> "strong"]
    ELSE IF Ge(sentiment_score, -350) /\ Lt(sentiment_score, -150)
    THEN [direction |-> "sell", conviction |-> "small"]
    ELSE [direction |-> "sell", conviction |-> "strong"]

_convert_sentiment_score(sentiment_score) ==
    IF Gt(sentiment_score, 350)
    THEN [direction |-> "buy", conviction |-> "strong"]
    ELSE IF Gt(sentiment_score, 150) /\ Le(sentiment_score, 350)
    THEN [direction |-> "buy", conviction |-> "small"]
    ELSE IF Ge(sentiment_score, -150) /\ Le(sentiment_score, 150)
    THEN [direction |-> "hold", conviction |-> "strong"]
    ELSE IF Ge(sentiment_score, -350) /\ Lt(sentiment_score, -150)
    THEN [direction |-> "sell", conviction |-> "small"]
    ELSE [direction |-> "sell", conviction |-> "strong"]

---------------------------------------------------------------------------
(* The fundamentals and the analytics stages' helpers.                     *)

\* dict.get(ticker, None) is truthy: the key is there and its dict not empty
HasFundamentals(feed, ticker) == ticker \in DOMAIN feed /\ ~feed[ticker].empty

\* float(s) of the strings of the documents: the value, for the strings that
\* are numbers; float raises ValueError on the others
FloatOf == [s \in {"140.00"} |-> 140]

IsFloat(s) == s \in DOMAIN FloatOf

\* float(_dict['AnalystTargetPrice']) raises ValueError
_scrape_fundamental_feed_raises(feed, ticker) ==
    HasFundamentals(feed, ticker) /\ ~IsFloat(feed[ticker].AnalystTargetPrice)

_scrape_fundamental_feed(feed, ticker) ==
    IF HasFundamentals(feed, ticker)
    THEN LET _dict == feed[ticker]
         IN  [industry |-> Some(_dict.Industry),
              trailing_pe |-> Some(_dict.TrailingPE),
              forward_pe |-> Some(_dict.ForwardPE),
              analyst_target_price |->
                  Some(FloatOf[_dict.AnalystTargetPrice]),
              _AnalystRatingStrongBuy |-> Some(_dict.AnalystRatingStrongBuy),
              _AnalystRatingBuy |-> Some(_dict.AnalystRatingBuy),
              _AnalystRatingHold |-> Some(_dict.AnalystRatingHold),
              _AnalystRatingSell |-> Some(_dict.AnalystRatingSell),
              _AnalystRatingStrongSell |-> Some(_dict.AnalystRatingStrongSell)]
    ELSE [industry |-> None, trailing_pe |-> None, forward_pe |-> None,
          analyst_target_price |-> None,
          _AnalystRatingStrongBuy |-> None, _AnalystRatingBuy |-> None,
          _AnalystRatingHold |-> None, _AnalystRatingSell |-> None,
          _AnalystRatingStrongSell |-> None]

\* ConsensusScore with the strong-buy count weighted 1
ConsensusScore_weight1(r) ==
    IF IsNone(r._AnalystRatingStrongBuy) THEN None
    ELSE LET sb == Val(r._AnalystRatingStrongBuy)
             b == Val(r._AnalystRatingBuy)
             h == Val(r._AnalystRatingHold)
             s == Val(r._AnalystRatingSell)
             ss == Val(r._AnalystRatingStrongSell)
             total == sb + b + h + s + ss
         IN  IF total = 0 THEN None
             ELSE Some(Ratio(sb * 1 + b * 1 + h * 0 + s * (-1) + ss * (-2),
                             total))

\* the weighted rating sum over the rating count, elementwise on the table's
\* columns: NaN where a count is absent, and 0/0 is NaN
ConsensusScore(r) ==
    IF IsNone(r._AnalystRatingStrongBuy) THEN None
    ELSE LET sb == Val(r._AnalystRatingStrongBuy)
             b == Val(r._AnalystRatingBuy)
             h == Val(r._AnalystRatingHold)
             s == Val(r._AnalystRatingSell)
             ss == Val(r._AnalystRatingStrongSell)
             total == sb + b + h + s + ss
         IN  IF total = 0 THEN None
             ELSE Some(Ratio(sb * 2 + b * 1 + h * 0 + s * (-1) + ss * (-2),
                             total))

\* Python's round(x, 0): to the nearest integer, a tie to the even one
Round(x) ==
    LET q == x.num \div x.den
        r == x.num % x.den
    IN  IF 2 * r < x.den THEN q
        ELSE IF 2 * r > x.den THEN q + 1
        ELSE IF q % 2 = 0 THEN q ELSE q + 1

\* sentiment_score is a cell: NaN (absent) compares unequal to everything
_convert_analyst_score(sentiment_score) ==
    LET nan == IsNone(sentiment_score)
        score == IF nan THEN 0 ELSE Round(Val(sentiment_score))
    IN  IF ~nan /\ score = 2
        THEN [direction |-> Some("buy"), conviction |-> Some("strong")]
        ELSE IF ~nan /\ score = 1
        THEN [direction |-> Some("buy"), conviction |-> Some("small")]
        ELSE IF ~nan /\ score = 0
        THEN [direction |-> Some("hold"), conviction |-> Some("strong")]
        ELSE IF ~nan /\ score = -1
        THEN [direction |-> Some("sell"), conviction |-> Some("small")]
        ELSE IF ~nan /\ score = 0
        THEN [direction |-> Some("sell"), conviction |-> Some("strong")]
        ELSE [direction |-> None, conviction |-> None]

WindowSize == 20

HasAnalytics(feed, ticker) == ticker \in DOMAIN feed /\ feed[ticker] # <<>>

\* _scrape_window_analytics_feed with the bands closed above (<=)
_scrape_window_analytics_feed_le(feed, ticker, window_size) ==
    IF ~HasAnalytics(feed, ticker) THEN None
    ELSE LET total == SumSeq(feed[ticker])
             n == Len(feed[ticker])
         IN  IF total <= 20 * n THEN Some(window_size)
             ELSE IF total <= 50 * n THEN Some(window_size \div 2)
             ELSE Some(window_size \div 4)

\* the mean of the samples against the bands 0.02 and 0.05
_scrape_window_analytics_feed(feed, ticker, window_size) ==
    IF ~HasAnalytics(feed, ticker) THEN None
    ELSE LET total == SumSeq(feed[ticker])
             n == Len(feed[ticker])
         IN  IF total < 20 * n THEN Some(window_size)
             ELSE IF total < 50 * n THEN Some(window_size \div 2)
             ELSE Some(window_size \div 4)

---------------------------------------------------------------------------
(* The signal table.                                                       *)

InitColumns ==
    {"industry", "trailing_pe", "forward_pe", "analyst_direction",
     "analyst_target_price", "sentiment_score", "sentiment_direction",
     "sentiment_conviction", "execution_time", "valid_period"}

SentimentHelpers ==
    {"_news_occurences", "_all_sentiment_scores", "_all_relevance_scores"}

EmptyRow ==
    [industry |-> None, trailing_pe |-> None, forward_pe |-> None,
     analyst_direction |-> None, analyst_conviction |-> None,
     analyst_target_price |-> None, sentiment_score |-> None,
     sentiment_direction |-> None, sentiment_conviction |-> None,
     execution_time |-> None, valid_period |-> None]

NoFeed == [kind |-> "none"]
NoCall == [fn |-> "none"]
NoLoader == [load_locally |-> FALSE, save_locally |-> FALSE]

PICKLE_DIRECTORY == "notebooks/pickled_feeds"

\* the api keys a pipeline is given: None, or a key
ApiKeys == {None, Some("KEY")}

\* Python's truth of an optional string: None and "" are false
Truthy(s) == ~IsNone(s) /\ Val(s) # ""

\* FeedLoader.__init__ raises only without a key and without a directory
FeedLoaderRaises(api_key, pickle_dir) == ~Truthy(api_key) /\ ~Truthy(pickle_dir)

\* the attributes FeedLoader.__init__ sets (save_locally is not set when it
\* loads locally, and is not read then)
FeedLoader(api_key, pickle_dir) ==
    IF ~Truthy(api_key)
    THEN [api_key |-> api_key, pickle_dir |-> pickle_dir,
          load_locally |-> TRUE, save_locally |-> FALSE]
    ELSE [api_key |-> api_key, pickle_dir |-> pickle_dir,
          load_locally |-> FALSE, save_locally |-> Truthy(pickle_dir)]

\* what a load_* method of the loader does to get its document: the cached
\* file read, or the request sent and then the file written
FetchEffects(ldr, function, file) ==
    IF ldr.load_locally
    THEN {[op |-> "open:rb", target |-> file]}
    ELSE {[op |-> "GET", target |-> function]}
         \cup (IF ldr.save_locally
               THEN {[op |-> "open:wb", target |-> file]} ELSE {})

\* the state __init__ leaves when it is given an api key: one all-absent row
\* per ticker of the universe, and the loader of that key
Init ==
    /\ tickers \in SUBSET RequestedStrings \ {{}}
    /\ signals_df = [t \in tickers |-> EmptyRow]
    /\ columns = InitColumns
    /\ feed_json = NoFeed
    /\ absent_in = [t \in tickers |-> {}]
    /\ pc = "process_sentiment"
    /\ exception = None
    /\ loader = FeedLoader(Some("KEY"), Some(PICKLE_DIRECTORY))
    /\ io = {}
    /\ call = NoCall
    /\ ret = None

\* df[column] = series: the series is aligned on the table's index, the
\* rows without a value get an absent cell
Aligned(series, key) == IF key \in DOMAIN series THEN Some(series[key]) ELSE None

\* AssignSentiment as an inner join: only the rows with a score are kept
AssignSentiment_inner(df, scores, converted) ==
    [t \in DOMAIN df \cap DOMAIN scores |->
        [df[t] EXCEPT
            !.sentiment_score = Aligned(scores, t),
            !.sentiment_direction = Some(converted[t].direction),
            !.sentiment_conviction = Some(converted[t].conviction)]]

\* df[score] = scores; df[[direction, conviction]] = converted: both are
\* aligned on the table's index, which keeps its rows
AssignSentiment(df, scores, converted) ==
    [t \in DOMAIN df |->
        [df[t] EXCEPT
            !.sentiment_score = Aligned(scores, t),
            !.sentiment_direction =
                IF t \in DOMAIN converted
                THEN Some(converted[t].direction) ELSE None,
            !.sentiment_conviction =
                IF t \in DOMAIN converted
                THEN Some(converted[t].conviction) ELSE None]]

\* The cells of the helper columns are not kept in the rows: they are
\* CollectedFor of the document, and columns says whether they are there.
process_sentiment ==
    /\ pc = "process_sentiment"
    /\ \E sh \in Shapes : \E flat \in FlatEntries(sh, RequestedStrings) :
        LET feed == NewsFeed(sh, flat)
            scores == SentimentScores(feed, DOMAIN signals_df)
            \* .dropna().apply(...): one classification per score present
            converted ==
                [t \in DOMAIN scores |-> _convert_sentiment_score(scores[t])]
        IN  /\ feed_json' = [kind |-> "news", feed |-> feed]
            /\ absent_in' =
                   [t \in DOMAIN absent_in |->
                       IF t \in FeedTickers(feed) THEN absent_in[t]
                       ELSE absent_in[t] \cup {"news"}]
            /\ IF DOMAIN scores = {}
               THEN \* Series.apply of an empty Series is an empty Series,
                    \* and df[[a, b]] = <empty Series> raises
                    /\ signals_df' =
                           [t \in DOMAIN signals_df |->
                               [signals_df[t] EXCEPT
                                   !.sentiment_score = None]]
                    /\ columns' = columns \cup SentimentHelpers
                    /\ exception' =
                           Some("ValueError: Columns must be same length as key")
                    /\ pc' = "raised"
               ELSE /\ signals_df' =
                           AssignSentiment(signals_df, scores, converted)
                    /\ columns' = (columns \cup SentimentHelpers)
                                      \ SentimentHelpers
                    /\ exception' = exception
                    /\ pc' = "process_sentiment:return"
    /\ io' = io \cup FetchEffects(loader, "NEWS_SENTIMENT", "news_sentiment.pkl")
    /\ UNCHANGED <<tickers, loader, call, ret>>

AnalystHelpers ==
    {"_AnalystRatingStrongBuy", "_AnalystRatingBuy", "_AnalystRatingHold",
     "_AnalystRatingSell", "_AnalystRatingStrongSell"}

\* Between reset_index() and set_index() the table has a RangeIndex and
\* "ticker" is one of its columns: signals_df then maps the ticker cell of a
\* row to the rest of the row, and "ticker" is in columns.
process_fundamentals ==
    /\ pc = "process_fundamentals"
    /\ \E feed \in FundamentalsFeeds :
        LET scraped ==
                [t \in DOMAIN signals_df |-> _scrape_fundamental_feed(feed, t)]
            classified ==
                [t \in DOMAIN signals_df |->
                    _convert_analyst_score(ConsensusScore(scraped[t]))]
        IN  /\ feed_json' = [kind |-> "fundamentals", feed |-> feed]
            /\ absent_in' =
                   [t \in DOMAIN absent_in |->
                       IF HasFundamentals(feed, t) THEN absent_in[t]
                       ELSE absent_in[t] \cup {"fundamentals"}]
            /\ IF \E t \in DOMAIN signals_df :
                      _scrape_fundamental_feed_raises(feed, t)
               THEN \* the ValueError leaves apply(): nothing was assigned,
                    \* and the index is still reset
                    /\ signals_df' = signals_df
                    /\ columns' = columns \cup {"ticker"}
                    /\ exception' =
                           Some("ValueError: could not convert string to float")
                    /\ pc' = "raised"
               ELSE /\ signals_df' =
                           [t \in DOMAIN signals_df |->
                               [signals_df[t] EXCEPT
                                   !.industry = scraped[t].industry,
                                   !.trailing_pe = scraped[t].trailing_pe,
                                   !.forward_pe = scraped[t].forward_pe,
                                   !.analyst_target_price =
                                       scraped[t].analyst_target_price,
                                   !.analyst_direction =
                                       classified[t].direction,
                                   !.analyst_conviction =
                                       classified[t].conviction]]
                    /\ columns' = ((columns \cup AnalystHelpers)
                                       \cup {"analyst_conviction"})
                                      \ AnalystHelpers
                    /\ exception' = exception
                    /\ pc' = "process_fundamentals:return"
    /\ io' = io \cup FetchEffects(loader, "OVERVIEW", "fundamentals.pkl")
    /\ UNCHANGED <<tickers, loader, call, ret>>

\* process_analytics building every row anew around its holding period
process_analytics_rebuilt ==
    /\ pc = "process_analytics"
    /\ \E feed \in AnalyticsFeeds :
        /\ feed_json' = [kind |-> "analytics", feed |-> feed]
        /\ absent_in' =
               [t \in DOMAIN absent_in |->
                   IF HasAnalytics(feed, t) THEN absent_in[t]
                   ELSE absent_in[t] \cup {"analytics"}]
        /\ signals_df' =
               [t \in DOMAIN signals_df |->
                   [EmptyRow EXCEPT
                       !.valid_period =
                           _scrape_window_analytics_feed(feed, t, WindowSize)]]
    /\ pc' = "process_analytics:return"
    /\ io' = io \cup FetchEffects(loader, "ANALYTICS_SLIDING_WINDOW",
                                 "sliding_window_analytics.pkl")
    /\ UNCHANGED <<tickers, columns, exception, loader, call, ret>>

process_analytics ==
    /\ pc = "process_analytics"
    /\ \E feed \in AnalyticsFeeds :
        /\ feed_json' = [kind |-> "analytics", feed |-> feed]
        /\ absent_in' =
               [t \in DOMAIN absent_in |->
                   IF HasAnalytics(feed, t) THEN absent_in[t]
                   ELSE absent_in[t] \cup {"analytics"}]
        /\ signals_df' =
               [t \in DOMAIN signals_df |->
                   [signals_df[t] EXCEPT
                       !.valid_period =
                           _scrape_window_analytics_feed(feed, t, WindowSize)]]
    /\ pc' = "process_analytics:return"
    /\ io' = io \cup FetchEffects(loader, "ANALYTICS_SLIDING_WINDOW",
                                 "sliding_window_analytics.pkl")
    /\ UNCHANGED <<tickers, columns, exception, loader, call, ret>>

\* run()'s next statement after a stage
AfterStage(stage) ==
    CASE stage = "process_sentiment:return" -> "process_fundamentals"
      [] stage = "process_fundamentals:return" -> "process_analytics"
      [] stage = "process_analytics:return" -> "returned"

\* a stage returns to run(): its local feed_json is gone, the table stays
stage_returns ==
    /\ pc \in {"process_sentiment:return", "process_fundamentals:return",
               "process_analytics:return"}
    /\ feed_json' = NoFeed
    /\ pc' = AfterStage(pc)
    /\ UNCHANGED <<tickers, signals_df, columns, absent_in, exception,
                   loader, io, call, ret>>

\* run(): the three stages in this order, each enabled by pc
Next ==
    \/ process_sentiment
    \/ process_fundamentals
    \/ process_analytics
    \/ stage_returns

Spec == Init /\ [][Next]_vars

---------------------------------------------------------------------------
(* The static methods called on their own, on inputs drawn from bounded    *)
(* sets.                                                                   *)

SentimentArgs ==
    {Ratio(n, d) : n \in -MaxScore..MaxScore, d \in 1..MaxDen}

\* NaN, and the scores n/d in [-3, 3]
AnalystArgs ==
    {None} \cup
    UNION {{Some(Ratio(n, d)) : n \in (-3 * d)..(3 * d)} : d \in 1..MaxDen}

\* no key, an empty dict, one sample (the mean is the sample), or two
WindowSamples ==
    {<<>>} \cup {<<v>> : v \in 0..MaxStddev}
        \cup {<<v1, v2>> : v1 \in StddevVals, v2 \in StddevVals}

WindowArgs ==
    [feed : UNION {[K -> WindowSamples] : K \in SUBSET {"X"}},
     ticker : {"X"},
     window_size : 0..MaxWindow]

StaticInit ==
    /\ tickers = {}
    /\ signals_df = <<>>
    /\ columns = {}
    /\ feed_json = NoFeed
    /\ absent_in = <<>>
    /\ pc = "call"
    /\ exception = None
    /\ loader = NoLoader
    /\ io = {}
    /\ \/ \E sh \in Shapes : \E flat \in FlatEntries(sh, FeedStrings) :
            \E name \in FeedStrings :
                call = [fn |-> "_collect_sentiment_scores",
                        arg |-> [feed |-> NewsFeed(sh, flat), name |-> name]]
       \/ \E a \in SentimentArgs :
            call = [fn |-> "_convert_sentiment_score", arg |-> a]
       \/ \E a \in AnalystArgs :
            call = [fn |-> "_convert_analyst_score", arg |-> a]
       \/ \E a \in WindowArgs :
            call = [fn |-> "_scrape_window_analytics_feed", arg |-> a]
    /\ ret = None

\* _scrape_sentiment_feed, then _collect_sentiment_scores on the row of name
call_collect_sentiment_scores ==
    /\ pc = "call"
    /\ call.fn = "_collect_sentiment_scores"
    /\ ret' = Some(CollectedFor(call.arg.feed, call.arg.name))
    /\ pc' = "called"
    /\ UNCHANGED <<tickers, signals_df, columns, feed_json, absent_in,
                   exception, loader, io, call>>

call_convert_sentiment_score ==
    /\ pc = "call"
    /\ call.fn = "_convert_sentiment_score"
    /\ ret' = Some(_convert_sentiment_score(call.arg))
    /\ pc' = "called"
    /\ UNCHANGED <<tickers, signals_df, columns, feed_json, absent_in,
                   exception, loader, io, call>>

call_convert_analyst_score ==
    /\ pc = "call"
    /\ call.fn = "_convert_analyst_score"
    /\ ret' = Some(_convert_analyst_score(call.arg))
    /\ pc' = "called"
    /\ UNCHANGED <<tickers, signals_df, columns, feed_json, absent_in,
                   exception, loader, io, call>>

call_scrape_window_analytics_feed ==
    /\ pc = "call"
    /\ call.fn = "_scrape_window_analytics_feed"
    /\ ret' = Some(_scrape_window_analytics_feed(
                       call.arg.feed, call.arg.ticker, call.arg.window_size))
    /\ pc' = "called"
    /\ UNCHANGED <<tickers, signals_df, columns, feed_json, absent_in,
                   exception, loader, io, call>>

StaticNext ==
    \/ call_collect_sentiment_scores
    \/ call_convert_sentiment_score
    \/ call_convert_analyst_score
    \/ call_scrape_window_analytics_feed

StaticSpec == StaticInit /\ [][StaticNext]_vars

---------------------------------------------------------------------------
(* Construction, from the arguments of __init__ to the first fetch of      *)
(* run().                                                                  *)

\* the arguments of InformationCollationPipeline(api_key, tickers): any key,
\* any universe, the empty one included
ConstructArgs == [api_key : ApiKeys, tickers : SUBSET RequestedStrings]

ConstructInit ==
    /\ tickers = {}
    /\ signals_df = <<>>
    /\ columns = {}
    /\ feed_json = NoFeed
    /\ absent_in = <<>>
    /\ pc = "__init__"
    /\ exception = None
    /\ loader = NoLoader
    /\ io = {}
    /\ \E a \in ConstructArgs : call = [fn |-> "__init__", arg |-> a]
    /\ ret = None

\* InformationCollationPipeline.__init__: the attributes, the table with one
\* all-absent row per ticker, then the FeedLoader with PICKLE_DIRECTORY
__init__ ==
    /\ pc = "__init__"
    /\ tickers' = call.arg.tickers
    /\ signals_df' = [t \in call.arg.tickers |-> EmptyRow]
    /\ columns' = InitColumns
    /\ absent_in' = [t \in call.arg.tickers |-> {}]
    /\ IF FeedLoaderRaises(call.arg.api_key, Some(PICKLE_DIRECTORY))
       THEN /\ exception' = Some("ReferenceError")
            /\ loader' = loader
            /\ pc' = "raised"
       ELSE /\ exception' = exception
            /\ loader' = FeedLoader(call.arg.api_key, Some(PICKLE_DIRECTORY))
            /\ pc' = "run"
    /\ UNCHANGED <<feed_json, io, call, ret>>

\* APIs._get_comma_seperated: len(_list) == 0 evaluates _list[0], an
\* IndexError
_get_comma_seperated_raises(_list) == _list = {}

\* run()'s first fetch, FeedLoader.load_news_sentiment(self.tickers): the
\* cached file is read, or the request is sent once the tickers are joined
load_news_sentiment ==
    /\ pc = "run"
    /\ IF ~loader.load_locally /\ _get_comma_seperated_raises(tickers)
       THEN /\ exception' = Some("IndexError: list index out of range")
            /\ feed_json' = feed_json
            /\ io' = io
            /\ pc' = "raised"
       ELSE /\ \E sh \in Shapes : \E flat \in FlatEntries(sh, RequestedStrings) :
                feed_json' = [kind |-> "news", feed |-> NewsFeed(sh, flat)]
            /\ io' = io \cup FetchEffects(loader, "NEWS_SENTIMENT",
                                         "news_sentiment.pkl")
            /\ exception' = exception
            /\ pc' = "loaded"
    /\ UNCHANGED <<tickers, signals_df, columns, absent_in, loader, call, ret>>

ConstructNext ==
    \/ __init__
    \/ load_news_sentiment

ConstructSpec == ConstructInit /\ [][ConstructNext]_vars

---------------------------------------------------------------------------
(* The properties.                                                         *)

Called(fn) == pc = "called" /\ call.fn = fn

\* the bands of the sentiment table, with the code's conviction labels
\* ("strong" for the strongest band, "small" for the moderate one)
InBand(s, b) ==
    CASE b = 1 -> Gt(s, 350)
      [] b = 2 -> Gt(s, 150) /\ Le(s, 350)
      [] b = 3 -> Ge(s, -150) /\ Le(s, 150)
      [] b = 4 -> Ge(s, -350) /\ Lt(s, -150)
      [] b = 5 -> Lt(s, -350)

BandLabel(b) ==
    CASE b = 1 -> [direction |-> "buy", conviction |-> "strong"]
      [] b = 2 -> [direction |-> "buy", conviction |-> "small"]
      [] b = 3 -> [direction |-> "hold", conviction |-> "strong"]
      [] b = 4 -> [direction |-> "sell", conviction |-> "small"]
      [] b = 5 -> [direction |-> "sell", conviction |-> "strong"]

\* C1: every score lies in exactly one band of the table (boundaries closed
\* and open as tabulated) and _convert_sentiment_score returns that band.
C1_SentimentBands ==
    Called("_convert_sentiment_score") =>
        LET bands == {b \in 1..5 : InBand(call.arg, b)}
        IN  /\ Cardinality(bands) = 1
            /\ \A b \in bands : Val(ret) = BandLabel(b)

\* the score 0.35 was classified buy/moderate
C1_Witness ==
    /\ Called("_convert_sentiment_score")
    /\ call.arg = Ratio(350, 1)
    /\ Val(ret) = [direction |-> "buy", conviction |-> "small"]

\* every entry of the feed that carries ticker string t, in feed order
FeedEntriesFor(feed, t) ==
    Concat([i \in 1..Len(feed) |-> EntriesFor(feed[i], t)])

RelevanceSum(feed, t) ==
    LET e == FeedEntriesFor(feed, t)
    IN  SumSeq([k \in 1..Len(e) |-> e[k].relevance_score])

WeightedSum(feed, t) ==
    LET e == FeedEntriesFor(feed, t)
    IN  SumSeq([k \in 1..Len(e) |->
                   e[k].ticker_sentiment_score * e[k].relevance_score])

AfterSentiment == feed_json.kind = "news"

\* C2: after process_sentiment, a requested ticker that no entry of the feed
\* mentions, or whose relevance scores sum to zero, has no sentiment score,
\* no sentiment direction and no sentiment conviction.
C2_NoSignalStaysAbsent ==
    AfterSentiment =>
        \A t \in tickers :
            (FeedEntriesFor(feed_json.feed, t) = <<>>
                \/ RelevanceSum(feed_json.feed, t) = 0)
            => /\ IsNone(signals_df[t].sentiment_score)
               /\ IsNone(signals_df[t].sentiment_direction)
               /\ IsNone(signals_df[t].sentiment_conviction)

\* process_sentiment returned, with one ticker scored and another one
\* mentioned with relevance 0 only
C2_Witness ==
    /\ AfterSentiment
    /\ pc = "process_sentiment:return"
    /\ \E t \in tickers :
        /\ FeedEntriesFor(feed_json.feed, t) # <<>>
        /\ RelevanceSum(feed_json.feed, t) = 0
        /\ IsNone(signals_df[t].sentiment_score)

\* C3: after process_sentiment, a requested ticker with observations and a
\* non-zero relevance sum has the score sum(s*r)/sum(r), a weighted sum of
\* zero giving the score 0 and the direction hold; the score is absent only
\* for an empty observation set or a zero relevance sum.
C3_ScoreIsWeightedMean ==
    AfterSentiment =>
        \A t \in tickers :
            LET feed == feed_json.feed
                defined == FeedEntriesFor(feed, t) # <<>>
                               /\ RelevanceSum(feed, t) # 0
            IN  /\ defined =>
                    /\ signals_df[t].sentiment_score =
                           Some(Ratio(WeightedSum(feed, t),
                                      RelevanceSum(feed, t)))
                    /\ WeightedSum(feed, t) = 0 =>
                           signals_df[t].sentiment_direction = Some("hold")
                /\ IsNone(signals_df[t].sentiment_score) => ~defined

\* the feed with its articles in another order
Reorderings(feed) ==
    {[i \in 1..Len(feed) |-> feed[p[i]]] : p \in Permutations(1..Len(feed))}

\* entry j of the article replaced by two entries of the same ticker and
\* sentiment, with the relevances r1 and the rest
SplitEntry(article, j, r1) ==
    SubSeq(article, 1, j - 1)
    \o <<[article[j] EXCEPT !.relevance_score = r1],
         [article[j] EXCEPT !.relevance_score = @ - r1]>>
    \o SubSeq(article, j + 1, Len(article))

\* the feed with one entry of t split into two entries of positive relevance
Splits(feed, t) ==
    UNION {UNION {{[feed EXCEPT ![i] = SplitEntry(feed[i], j, r1)] :
                      r1 \in 1..(feed[i][j].relevance_score - 1)} :
                  j \in {k \in 1..Len(feed[i]) : feed[i][k].ticker = t}} :
           i \in 1..Len(feed)}

\* C4: the score process_sentiment gives a ticker is the score it gives on
\* the feed with its articles reordered, and on the feed with one entry of
\* the ticker split into entries of the same sentiment whose relevances sum
\* to the original's.
C4_ScoreInvariant ==
    AfterSentiment =>
        \A t \in tickers :
            \A g \in Reorderings(feed_json.feed) \cup Splits(feed_json.feed, t) :
                Aligned(SentimentScores(g, tickers), t)
                    = signals_df[t].sentiment_score

\* C5: the lists collected for a ticker string hold exactly one pair per
\* entry of the feed carrying that string: an article with k such entries
\* contributes k pairs.
C5_OnePairPerEntry ==
    Called("_collect_sentiment_scores") =>
        LET n == Len(FeedEntriesFor(call.arg.feed, call.arg.name))
        IN  /\ Len(Val(ret)._all_sentiment_scores) = n
            /\ Len(Val(ret)._all_relevance_scores) = n

\* the discrete bands of the analyst-consensus scale
AnalystBand(k) ==
    CASE k = 2 -> [direction |-> Some("buy"), conviction |-> Some("strong")]
      [] k = 1 -> [direction |-> Some("buy"), conviction |-> Some("small")]
      [] k = 0 -> [direction |-> Some("hold"), conviction |-> Some("strong")]
      [] k = -1 -> [direction |-> Some("sell"), conviction |-> Some("small")]
      [] k = -2 -> [direction |-> Some("sell"), conviction |-> Some("strong")]

\* C6: a consensus score in [-2, 2] is classified as the band of a nearest
\* integer k (2|x - k| <= 1): never as (None, None).
C6_AnalystBands ==
    (/\ Called("_convert_analyst_score")
     /\ ~IsNone(call.arg)
     /\ Abs(Val(call.arg).num) <= 2 * Val(call.arg).den)
    => \E k \in -2..2 :
        /\ 2 * Abs(Val(call.arg).num - k * Val(call.arg).den)
               <= Val(call.arg).den
        /\ Val(ret) = AnalystBand(k)

AfterFundamentals == feed_json.kind = "fundamentals" /\ IsNone(exception)

\* C7: after process_fundamentals, a ticker present in the document has the
\* classification of (2*sb + b - s - 2*ss) / (sb + b + h + s + ss); the
\* histogram of one strong-buy is buy with the strongest conviction; a total
\* of zero leaves analyst direction and conviction absent.
C7_ConsensusClassified ==
    AfterFundamentals =>
        \A t \in tickers :
            HasFundamentals(feed_json.feed, t) =>
                LET d == feed_json.feed[t]
                    sb == d.AnalystRatingStrongBuy
                    b == d.AnalystRatingBuy
                    h == d.AnalystRatingHold
                    s == d.AnalystRatingSell
                    ss == d.AnalystRatingStrongSell
                    total == sb + b + h + s + ss
                    row == signals_df[t]
                    got == [direction |-> row.analyst_direction,
                            conviction |-> row.analyst_conviction]
                IN  /\ total # 0 =>
                        got = _convert_analyst_score(
                                  Some(Ratio(2 * sb + b - s - 2 * ss, total)))
                    /\ (sb = 1 /\ total = 1) => got = AnalystBand(2)
                    /\ total = 0 => got = [direction |-> None,
                                           conviction |-> None]

\* a ticker whose only rating is one strong-buy was classified buy
C7_Witness ==
    /\ AfterFundamentals
    /\ \E t \in tickers :
        /\ HasFundamentals(feed_json.feed, t)
        /\ feed_json.feed[t].AnalystRatingStrongBuy = 1
        /\ signals_df[t].analyst_direction = Some("buy")
        /\ signals_df[t].analyst_conviction = Some("strong")

\* C8: for a ticker with samples of mean m, the holding period is w for
\* m < 0.02, w // 2 for 0.02 <= m < 0.05 and w // 4 for m >= 0.05; with
\* w = 20 the means 0.019, 0.03 and 0.10 give 20, 10 and 5.
C8_VolatilityBands ==
    (/\ Called("_scrape_window_analytics_feed")
     /\ HasAnalytics(call.arg.feed, call.arg.ticker))
    => LET samples == call.arg.feed[call.arg.ticker]
           m == [num |-> SumSeq(samples), den |-> Len(samples)]
           w == call.arg.window_size
           Quotient(q, d) == d * q <= w /\ w < d * (q + 1)
           period == Val(ret)
       IN  /\ ~IsNone(period)
           /\ Lt(m, 20) => Val(period) = w
           /\ (Ge(m, 20) /\ Lt(m, 50)) => Quotient(Val(period), 2)
           /\ Ge(m, 50) => Quotient(Val(period), 4)
           /\ (w = 20 /\ samples = <<19>>) => Val(period) = 20
           /\ (w = 20 /\ samples = <<30>>) => Val(period) = 10
           /\ (w = 20 /\ samples = <<100>>) => Val(period) = 5

\* the mean 0.05 with the window 21 gave 21 // 4 = 5
C8_Witness ==
    /\ Called("_scrape_window_analytics_feed")
    /\ HasAnalytics(call.arg.feed, call.arg.ticker)
    /\ call.arg.feed[call.arg.ticker] = <<50>>
    /\ call.arg.window_size = 21
    /\ ret = Some(Some(5))

\* C9: after construction and after each stage of a run, the row keys of
\* the signal table are the ticker universe given at construction (the index
\* is the ticker, and its values are the universe).
C9_RowKeysAreUniverse ==
    IsNone(exception) => ("ticker" \notin columns /\ DOMAIN signals_df = tickers)

\* run returned; the last document has a key that was not requested, and a
\* requested ticker was absent from a document
C9_Witness ==
    /\ pc = "process_analytics:return"
    /\ \E k \in DOMAIN feed_json.feed : k \notin tickers
    /\ \E t \in tickers : absent_in[t] # {}

\* the kinds of document loaded so far
Loaded ==
    CASE pc = "process_sentiment" -> {}
      [] pc \in {"process_sentiment:return", "process_fundamentals"}
            -> {"news"}
      [] pc = "raised"
            -> IF feed_json.kind = "news" THEN {"news"}
               ELSE {"news", "fundamentals"}
      [] pc \in {"process_fundamentals:return", "process_analytics"}
            -> {"news", "fundamentals"}
      [] pc \in {"process_analytics:return", "returned"}
            -> {"news", "fundamentals", "analytics"}

\* C10: a requested ticker absent from every document loaded raises no
\* error and keeps its row; once run has returned, every derived field of
\* the row is absent.
C10_AbsentTickerKeepsRow ==
    \A t \in tickers :
        (Loaded # {} /\ absent_in[t] = Loaded) =>
            /\ IsNone(exception)
            /\ t \in DOMAIN signals_df
            /\ pc = "returned" =>
                \A f \in {"sentiment_score", "sentiment_direction",
                          "sentiment_conviction", "analyst_direction",
                          "analyst_conviction", "valid_period", "industry",
                          "trailing_pe", "forward_pe", "analyst_target_price"} :
                    IsNone(signals_df[t][f])

\* C11: when the record of a requested ticker has a numeric field that fails
\* to parse, the batch is not aborted: process_fundamentals does not raise
\* out of run(), and the fundamentals of every other requested ticker are
\* computed from their records.
C11_BadRecordFailsAlone ==
    (/\ feed_json.kind = "fundamentals"
     /\ \E t \in tickers : _scrape_fundamental_feed_raises(feed_json.feed, t))
    => /\ pc # "raised"
       /\ \A u \in tickers :
            ~_scrape_fundamental_feed_raises(feed_json.feed, u) =>
                LET scraped == _scrape_fundamental_feed(feed_json.feed, u)
                IN  /\ signals_df[u].industry = scraped.industry
                    /\ signals_df[u].analyst_target_price =
                           scraped.analyst_target_price

\* the parameters the claim calls invalid: an empty universe, or no api key
InvalidParameters(arg) == arg.tickers = {} \/ ~Truthy(arg.api_key)

\* C12: once __init__ has been called with an empty ticker universe or
\* without an api key, the construction has raised: no pipeline (no loader)
\* exists, and no request was issued and no cached file opened.
C12_InvalidConstructionFails ==
    (/\ call.fn = "__init__"
     /\ InvalidParameters(call.arg)
     /\ pc # "__init__")
    => /\ pc = "raised"
       /\ loader = NoLoader
       /\ io = {}

\* the cells of ticker t in the columns fields are the same after the step
Kept(t, fields) == \A f \in fields : signals_df'[t][f] = signals_df[t][f]

\* C13: process_fundamentals leaves every ticker's sentiment score,
\* direction, conviction and holding period as they were;
\* process_analytics changes the holding period only; and when a stage
\* returns, none of the helper columns is in the table.
C13_StagesWriteOwnFields ==
    [][/\ pc = "process_fundamentals" =>
            \A t \in tickers :
                Kept(t, {"sentiment_score", "sentiment_direction",
                         "sentiment_conviction", "valid_period"})
       /\ pc = "process_analytics" =>
            \A t \in tickers :
                Kept(t, {"sentiment_score", "sentiment_direction",
                         "sentiment_conviction", "analyst_direction",
                         "analyst_conviction", "analyst_target_price",
                         "industry", "trailing_pe", "forward_pe",
                         "execution_time"})
       /\ pc' \in {"process_sentiment:return", "process_fundamentals:return",
                   "process_analytics:return"} =>
            columns' \cap {"_news_occurences", "_all_sentiment_scores",
                           "_all_relevance_scores",
                           "_AnalystRatingStrongBuy", "_AnalystRatingBuy",
                           "_AnalystRatingHold", "_AnalystRatingSell",
                           "_AnalystRatingStrongSell"} = {}
      ]_vars

\* process_analytics returned for a ticker that has a sentiment score, an
\* analyst direction, an industry and a holding period
C13_Witness ==
    /\ pc = "process_analytics:return"
    /\ \E t \in tickers :
        /\ ~IsNone(signals_df[t].sentiment_score)
        /\ ~IsNone(signals_df[t].sentiment_direction)
        /\ ~IsNone(signals_df[t].analyst_direction)
        /\ ~IsNone(signals_df[t].industry)
        /\ ~IsNone(signals_df[t].valid_period)

=============================================================================
